---- MODULE Spec2Model ----
(***************************************************************************)
(* Ingestion-and-retrieval pipeline of ambedkar_chatbot: the text          *)
(* segmenter (_chunk_words), the embedding client (embed_texts), the index *)
(* builder (ingest_corpus) and the vector store (VectorStore).             *)
(*                                                                         *)
(* Text is a sequence of one-character strings.  Three specifications:     *)
(*   SpecChunk  the segmenter applied to every small text                  *)
(*   SpecEmbed  one embed_texts call against a service that may answer any *)
(*              request with success, rate-limit, timeout or another error *)
(*   SpecStore  ingest runs, store loads and queries over the three        *)
(*              persisted artifacts                                        *)
(***************************************************************************)
EXTENDS Integers, Sequences, FiniteSets, TLC

VARIABLES
    \* ---- _chunk_words (ingest.py) ----
    cw_text,          \* argument text
    cw_max_words,     \* argument max_words
    cw_overlap,       \* argument overlap
    cw_pc,            \* "ready" | "done"
    cw_out            \* the windows the generator yielded, in order

chunkVars == <<cw_text, cw_max_words, cw_overlap, cw_pc, cw_out>>

VARIABLES
    \* ---- _chunk_words, one loop iteration at a time (ingest.py) ----
    sg_text,          \* argument text
    sg_max_words,     \* argument max_words
    sg_overlap,       \* argument overlap
    sg_pc,            \* "ready" | "loop" | "done"
    sg_start,         \* local start
    sg_iters,         \* history: the passes of the while loop begun so far
    sg_out            \* the windows the generator yielded, in order

segVars == <<sg_text, sg_max_words, sg_overlap, sg_pc, sg_start, sg_iters, sg_out>>

VARIABLES
    \* ---- VectorStore._score_from_distance (vector_store.py) ----
    sc_pc,            \* "ready" | "done"
    sc_near,          \* a distance, in hundredths
    sc_far,           \* another distance, in hundredths
    sc_near_score,    \* the score of sc_near, in hundredths, once computed
    sc_far_score      \* the score of sc_far, in hundredths, once computed

scoreVars == <<sc_pc, sc_near, sc_far, sc_near_score, sc_far_score>>

VARIABLES
    \* ---- _iter_pdf_chunks (ingest.py) ----
    it_pc,            \* "ready" | "done"
    it_corpus,        \* what PDF_DIR holds
    it_error,         \* the exception raised, NoError if none
    it_chunks         \* the chunks the generator yielded, in order

iterVars == <<it_pc, it_corpus, it_error, it_chunks>>

\* the variables of the functions that are exercised on their own
pureVars == <<chunkVars, segVars, scoreVars, iterVars>>

VARIABLES
    \* ---- EmbeddingClient.embed_texts (embedding.py) ----
    em_pc,            \* "idle" | "call" | "request" | "returned" | "raised"
    em_caller,        \* "direct" | "ingest" | "query": who receives the outcome
    em_texts,         \* argument texts
    em_batch_size,    \* cfg.batch_size
    em_start,         \* loop variable start
    em_attempt,       \* local attempt
    em_embeddings,    \* local embeddings
    em_result,        \* the returned list, NoResult until the call returns
    em_error,         \* the exception raised, NoError if none
    em_requests,      \* history: the requests sent, [start, input], in order
    em_sleeps,        \* history: the time.sleep calls, [after, delay], in order
    em_last_outcome,  \* history: what the service answered to the latest request
    svc_dims          \* the service: the vector lengths its responses may have

embedVars == <<em_pc, em_caller, em_texts, em_batch_size, em_start, em_attempt,
               em_embeddings, em_result, em_error, em_requests, em_sleeps,
               em_last_outcome, svc_dims>>

VARIABLES
    \* ---- the three persisted artifacts (config.py) ----
    indexFile,        \* INDEX_FILE
    metadataFile,     \* METADATA_FILE
    infoFile,         \* INDEX_INFO_FILE
    \* ---- cli.ingest / ingest_corpus (cli.py, ingest.py) ----
    ing_pc,           \* "idle" | "unlink" | "collect" | "embedding" | "save_index"
                      \* | "write_metadata" | "write_info" | "done" | "aborted"
    ing_rebuild,      \* argument rebuild, as cli.ingest passes it
    ing_corpus,       \* the PDF directory this run reads
    ing_del,          \* position in the artefact loop of the rebuild branch
    ing_chunks,       \* local chunks
    ing_vectors,      \* local vectors
    ing_error,        \* the exception that ended the run, NoError if none
    ing_run,          \* history: number of ingest runs started; tags what a run writes
    ing_built,        \* history: chunks of the run just ended if it built a store, else -1
    \* ---- VectorStore (vector_store.py), held by one chat process ----
    store,            \* the VectorStore object, NotLoaded if none was constructed
    load,             \* history of the latest VectorStore(): files present, reads, error
    sr_pc,            \* similarity_search: "idle" | "embedding" | "done"
    sr_arg,           \* argument top_k as the caller gave it (NoneArg if not given)
    sr_top_k,         \* local top_k after `top_k or self.cfg.top_k`
    sr_query,         \* argument query
    sr_results,       \* the returned list
    sr_error          \* the exception raised, NoError if none

diskVars == <<indexFile, metadataFile, infoFile>>
ingestVars == <<ing_pc, ing_rebuild, ing_corpus, ing_del, ing_chunks, ing_vectors,
                ing_error, ing_run, ing_built>>
searchVars == <<sr_pc, sr_arg, sr_top_k, sr_query, sr_results, sr_error>>
storeVars == <<store, load, searchVars>>

\* the embedding client, the files, ingest and the store
systemVars == <<embedVars, diskVars, ingestVars, storeVars>>

vars == <<pureVars, systemVars>>

(***************************************************************************)
(* Bounds                                                                  *)
(***************************************************************************)
MaxTextLen == 7        \* characters in a segmenter input
MaxWordsArg == 3       \* largest max_words tried
MaxOverlapArg == 3     \* largest overlap tried
MaxTexts == 3          \* texts in a direct embed_texts call
MaxBatchSize == 2      \* largest cfg.batch_size tried in a direct call
MaxRuns == 2           \* ingest runs in one behaviour
MaxTopKArg == 2        \* largest top_k a caller passes
CfgChunkSize == 2      \* cfg.chunk_size in the store runs
CfgChunkOverlap == 1   \* cfg.chunk_overlap in the store runs
CfgBatchSize == 2      \* cfg.batch_size in the store runs
CfgTopK == 2           \* cfg.top_k in the store runs

Min(a, b) == IF a < b THEN a ELSE b
Max(a, b) == IF a > b THEN a ELSE b

(***************************************************************************)
(* Text: str.split, " ".join, str.strip                                    *)
(***************************************************************************)
Alphabet == {"a", "b", " "}

IsSpace(c) == c \in {" ", "\n", "\r", "\t"}

TextsUpTo(n) == UNION {[1..k -> Alphabet] : k \in 0..n}

RECURSIVE SplitFrom(_, _, _, _)
SplitFrom(text, i, cur, acc) ==
    IF i > Len(text)
    THEN IF cur = <<>> THEN acc ELSE Append(acc, cur)
    ELSE IF IsSpace(text[i])
         THEN SplitFrom(text, i + 1, <<>>, IF cur = <<>> THEN acc ELSE Append(acc, cur))
         ELSE SplitFrom(text, i + 1, Append(cur, text[i]), acc)

\* text.split(): the maximal runs of non-whitespace characters, in order
Split(text) == SplitFrom(text, 1, <<>>, <<>>)

RECURSIVE Join(_)
\* " ".join(words)
Join(words) ==
    IF words = <<>> THEN <<>>
    ELSE IF Len(words) = 1 THEN words[1]
    ELSE words[1] \o <<" ">> \o Join(Tail(words))

RECURSIVE LStrip(_)
LStrip(text) ==
    IF text # <<>> /\ IsSpace(text[1]) THEN LStrip(Tail(text)) ELSE text

RECURSIVE RStrip(_)
RStrip(text) ==
    IF text # <<>> /\ IsSpace(text[Len(text)])
    THEN RStrip(SubSeq(text, 1, Len(text) - 1))
    ELSE text

\* text.strip()
Strip(text) == RStrip(LStrip(text))

(***************************************************************************)
(* _chunk_words                                                            *)
(***************************************************************************)
\* words[start:end], a negative bound counting from the end of the list
PySlice(words, start, end) ==
    LET total == Len(words)
        lo == IF start < 0 THEN Max(start + total, 0) ELSE Min(start, total)
        hi == IF end < 0 THEN Max(end + total, 0) ELSE Min(end, total)
    IN SubSeq(words, lo + 1, hi)

StepIgnoringOverlap(max_words, overlap) == Max(max_words, 1)

StepWithoutFloor(max_words, overlap) == max_words - overlap

\* step = max(max_words - overlap, 1)
Step(max_words, overlap) == Max(max_words - overlap, 1)

WindowEndOneTooFar(total, start, max_words) == Min(total, start + max_words + 1)

\* end = min(total, start + max_words)
WindowEnd(total, start, max_words) == Min(total, start + max_words)

\* if end == total: break
LastWindow(total, end) == end = total

RECURSIVE ChunkLoop(_, _, _, _, _)
\* the while loop of _chunk_words, from window start `start` (0-based) with
\* `out` the windows yielded so far
ChunkLoop(words, max_words, step, start, out) ==
    LET total == Len(words) IN
    IF ~(start < total) THEN out
    ELSE LET end == WindowEnd(total, start, max_words)
             chunk_words == PySlice(words, start, end)
             chunk_text == Strip(Join(chunk_words))
             out2 == IF chunk_text # <<>> THEN Append(out, chunk_text) ELSE out
         IN IF LastWindow(total, end) THEN out2
            ELSE ChunkLoop(words, max_words, step, start + step, out2)

ChunkWords(text, max_words, overlap) ==
    LET words == Split(text) IN
    IF words = <<>> THEN <<>>
    ELSE ChunkLoop(words, max_words, Step(max_words, overlap), 0, <<>>)

\* no segmenter call under way
ChunkIdle ==
    /\ cw_text = <<>>
    /\ cw_max_words = 1
    /\ cw_overlap = 0
    /\ cw_pc = "done"
    /\ cw_out = <<>>

\* no stepwise segmenter call under way
SegIdle ==
    /\ sg_text = <<>>
    /\ sg_max_words = 1
    /\ sg_overlap = 0
    /\ sg_pc = "done"
    /\ sg_start = 0
    /\ sg_iters = 0
    /\ sg_out = <<>>

\* no score computation under way
ScoreIdle ==
    /\ sc_pc = "done"
    /\ sc_near = 0
    /\ sc_far = 0
    /\ sc_near_score = 0
    /\ sc_far_score = 0

(***************************************************************************)
(* Errors, named as the design names them; the value is what the code      *)
(* raises                                                                  *)
(***************************************************************************)
NoError == "none"
NoResult == "no result"

\* embedding.py:40-42
RateLimitExceededError ==
    "RuntimeError: Repeated rate limit errors while requesting embeddings"
\* embedding.py:45
EmbeddingServiceError == "RuntimeError: OpenAI API error while embedding"

(***************************************************************************)
(* The embedding service: one vector per input text, in input order        *)
(***************************************************************************)
Outcomes == {"ok", "rate_limited", "timeout", "api_error"}

CharCode(c) == CASE c = "a" -> 1 [] c = "b" -> 2 [] OTHER -> 0

RECURSIVE TextCode(_)
TextCode(t) == IF t = <<>> THEN 0 ELSE CharCode(t[1]) + 3 * TextCode(Tail(t))

\* the vector the service computes for a text
EmbeddingOf(t) == <<Len(t), TextCode(t)>>

\* the length of the vectors of the configured embedding model
NativeDim == Len(EmbeddingOf(<<>>))

\* v as a vector of length dim
Pad(v, dim) == [i \in 1..dim |-> IF i <= Len(v) THEN v[i] ELSE 0]

\* response.data of a successful request answered with vectors of length dim
ResponseData(input, dim) == [i \in 1..Len(input) |-> Pad(EmbeddingOf(input[i]), dim)]

(***************************************************************************)
(* EmbeddingClient.embed_texts                                             *)
(***************************************************************************)
MaxAttempts == 5
MaxDelay == 30

\* no call of embed_texts is under way
ClientIdle ==
    /\ em_pc = "idle"
    /\ em_caller = "direct"
    /\ em_texts = <<>>
    /\ em_batch_size = 1
    /\ em_start = 0
    /\ em_attempt = 0
    /\ em_embeddings = <<>>
    /\ em_result = NoResult
    /\ em_error = NoError
    /\ em_requests = <<>>
    /\ em_sleeps = <<>>
    /\ em_last_outcome = "none"

\* the client idle, the service answering with vectors of the model's length
EmbedIdle ==
    /\ ClientIdle
    /\ svc_dims = {NativeDim}

\* the state a caller puts the client in to call embed_texts(texts)
EmbedInvoke(caller, texts, batch_size) ==
    /\ em_pc' = "call"
    /\ em_caller' = caller
    /\ em_texts' = texts
    /\ em_batch_size' = batch_size
    /\ em_start' = 0
    /\ em_attempt' = 0
    /\ em_embeddings' = <<>>
    /\ em_result' = NoResult
    /\ em_error' = NoError
    /\ em_requests' = <<>>
    /\ em_sleeps' = <<>>
    /\ em_last_outcome' = "none"
    /\ UNCHANGED svc_dims

\* texts[start : start + batch_size]
Batch(texts, start, batch_size) ==
    SubSeq(texts, start + 1, Min(Len(texts), start + batch_size))

ExtendAsAppend(embeddings, data) == Append(embeddings, data)

\* embeddings.extend([item.embedding for item in response.data])
Extend(embeddings, data) == embeddings \o data

RetryableAnyFailure(outcome) == outcome # "ok"

\* except (RateLimitError, Timeout)
Retryable(outcome) == outcome \in {"rate_limited", "timeout"}

DelayUncapped(attempt) == 2 ^ attempt

\* delay = min(2 ** attempt, 30)
Delay(attempt) == Min(2 ^ attempt, MaxDelay)

\* if attempt > 5 (after attempt += 1)
RetriesExhausted(attempt) == attempt > MaxAttempts

\* the frame of embed_texts is left: its locals are gone
EmbedLeave ==
    /\ em_start' = 0
    /\ em_attempt' = 0
    /\ em_embeddings' = <<>>

RangeStopsOneEarly(next, total) == next + 1 < total

\* for start in range(0, len(texts), batch_size): next is a value of the range
InRange(next, total) == next < total

ListOfOneEmptyVector == <<<<>>>>

\* return []
EmptyList == <<>>

\* if not texts: return []   -- else embeddings = [] and the for loop over
\* range(0, len(texts), batch_size) is entered: its first batch is due, or,
\* had the range no value, return embeddings
EmbedEnter ==
    /\ em_pc = "call"
    /\ IF em_texts = <<>>
       THEN /\ em_pc' = "returned"
            /\ em_result' = EmptyList
       ELSE IF InRange(0, Len(em_texts))
       THEN /\ em_pc' = "request"
            /\ em_result' = em_result
       ELSE /\ em_pc' = "returned"
            /\ em_result' = em_embeddings
    /\ UNCHANGED <<em_caller, em_texts, em_batch_size, em_start, em_attempt,
                   em_embeddings, em_error, em_requests, em_sleeps, em_last_outcome,
                   svc_dims>>

\* one pass of the `while True` body: the request for the batch at em_start
\* is sent and the service answers it with `outcome`
EmbedRequest(outcome) ==
    LET batch == Batch(em_texts, em_start, em_batch_size)
        sent == Append(em_requests, [start |-> em_start, input |-> batch])
    IN
    /\ em_pc = "request"
    /\ em_requests' = sent
    /\ em_last_outcome' = outcome
    /\ IF outcome = "ok"
       THEN \E dim \in svc_dims :
            LET embeddings == Extend(em_embeddings, ResponseData(batch, dim))
                next == em_start + em_batch_size
            IN IF InRange(next, Len(em_texts))
               THEN \* break, then the next batch of the for loop
                    /\ em_pc' = "request"
                    /\ em_start' = next
                    /\ em_attempt' = 0
                    /\ em_embeddings' = embeddings
                    /\ UNCHANGED <<em_result, em_error, em_sleeps>>
               ELSE \* return embeddings
                    /\ em_pc' = "returned"
                    /\ em_result' = embeddings
                    /\ EmbedLeave
                    /\ UNCHANGED <<em_error, em_sleeps>>
       ELSE IF Retryable(outcome)
       THEN /\ em_sleeps' = Append(em_sleeps,
                                   [after |-> Len(sent), delay |-> Delay(em_attempt)])
            /\ IF RetriesExhausted(em_attempt + 1)
               THEN /\ em_pc' = "raised"
                    /\ em_error' = RateLimitExceededError
                    /\ EmbedLeave
                    /\ UNCHANGED em_result
               ELSE \* continue
                    /\ em_pc' = "request"
                    /\ em_attempt' = em_attempt + 1
                    /\ UNCHANGED <<em_start, em_embeddings, em_result, em_error>>
       ELSE \* except APIError
            /\ em_pc' = "raised"
            /\ em_error' = EmbeddingServiceError
            /\ EmbedLeave
            /\ UNCHANGED <<em_result, em_sleeps>>
    /\ UNCHANGED <<em_caller, em_texts, em_batch_size, svc_dims>>

EmbedStep ==
    \/ EmbedEnter
    \/ \E outcome \in Outcomes : EmbedRequest(outcome)

(***************************************************************************)
(* Errors of the build and the store                                       *)
(***************************************************************************)
\* config.py:41-43
ApiKeyError == "RuntimeError: OPENAI_API_KEY is not set"
\* ingest.py:67 and ingest.py:71
PdfNotFoundError == "FileNotFoundError: no PDF directory or no PDF files"
\* ingest.py:127
NoVectorsError == "RuntimeError: Embedding generation returned no vectors."
\* raised by index.add_item for a vector whose length is not the index's
WrongLengthError == "IndexError: Vector has wrong length"
\* raised by unlink, save, open or write when the file system refuses
FileSystemError == "OSError"
\* vector_store.py:30-32
ArtifactsMissingError == "FileNotFoundError: Vector store files not found"
\* raised by read_bytes, load or open on a path that does not exist
PathNotFoundError == "FileNotFoundError: No such file or directory"
\* raised by orjson.loads on bytes that are no JSON document
JsonDecodeError == "orjson.JSONDecodeError"
\* embedding.py:53
NoQueryVectorError == "RuntimeError: Failed to compute embedding for query"
\* raised by self._metadata[idx] for an id past the end of the list
MetadataIndexError == "IndexError: list index out of range"

(***************************************************************************)
(* Files and JSON.  A file is absent or holds data; `run` tags the ingest  *)
(* run that wrote it and `whole` tells whether the write completed (both   *)
(* are history, no reader sees them).  A dict is the sequence of its       *)
(* <<key, value>> pairs in insertion order.                                *)
(***************************************************************************)
NoFile == [exists |-> FALSE, run |-> 0, whole |-> FALSE, data |-> <<>>]

File(run, whole, data) == [exists |-> TRUE, run |-> run, whole |-> whole, data |-> data]

\* d[key]
Get(d, key) == LET i == CHOOSE i \in 1..Len(d) : d[i][1] = key IN d[i][2]

RECURSIVE Flatten(_)
Flatten(d) == IF d = <<>> THEN <<>> ELSE <<d[1][1], d[1][2]>> \o Flatten(Tail(d))

\* orjson.dumps(d): an opening brace, key and value of every pair, a closing brace
Dumps(d) == <<"{">> \o Flatten(d) \o <<"}">>

\* whether orjson.loads accepts the bytes
Decodable(bytes) == Len(bytes) >= 2

\* orjson.loads(bytes)
Loads(bytes) ==
    [i \in 1..((Len(bytes) - 2) \div 2) |-> <<bytes[2 * i], bytes[2 * i + 1]>>]

(***************************************************************************)
(* _clean_text and _iter_pdf_chunks                                        *)
(***************************************************************************)
RECURSIVE ReplaceDotDash(_)
\* raw.replace(".-", "-")
ReplaceDotDash(t) ==
    IF t = <<>> THEN <<>>
    ELSE IF Len(t) >= 2 /\ t[1] = "." /\ t[2] = "-"
         THEN <<"-">> \o ReplaceDotDash(SubSeq(t, 3, Len(t)))
         ELSE <<t[1]>> \o ReplaceDotDash(Tail(t))

RECURSIVE CollapseSpaces(_)
\* .replace("\r", " ").replace("\n", " ") and re.sub(r"\s+", " ", text)
CollapseSpaces(t) ==
    IF t = <<>> THEN <<>>
    ELSE IF IsSpace(t[1])
         THEN IF Len(t) >= 2 /\ IsSpace(t[2])
              THEN CollapseSpaces(Tail(t))
              ELSE <<" ">> \o CollapseSpaces(Tail(t))
         ELSE <<t[1]>> \o CollapseSpaces(Tail(t))

CleanText(raw) == Strip(CollapseSpaces(ReplaceDotDash(raw)))

DigitChars == <<"0", "1", "2", "3", "4", "5", "6", "7", "8", "9">>

RECURSIVE Digits(_)
\* the decimal digits an f-string gives a non-negative integer
Digits(n) ==
    IF n < 10 THEN <<DigitChars[n + 1]>>
    ELSE Digits(n \div 10) \o <<DigitChars[(n % 10) + 1]>>

ChunkIdWithoutSeq(stem, page_number, chunk_idx) ==
    stem \o <<"_", "p">> \o Digits(page_number)

\* f"{pdf_path.stem}_p{page_number}_c{chunk_idx}"
ChunkId(stem, page_number, chunk_idx) ==
    stem \o <<"_", "p">> \o Digits(page_number) \o <<"_", "c">> \o Digits(chunk_idx)

\* pdf_path.name
PdfName(stem) == stem \o <<".", "p", "d", "f">>

\* the chunks of one page (ingest.py:82-102); page numbers start at 1
PageChunks(doc, page_number, chunk_size, chunk_overlap) ==
    LET page == doc.pages[page_number]
        cleaned == CleanText(page.raw)
    IN IF ~page.ok \/ cleaned = <<>> THEN <<>>
       ELSE LET windows == ChunkWords(cleaned, chunk_size, chunk_overlap)
            IN [i \in 1..Len(windows) |->
                   [chunk_id |-> ChunkId(doc.stem, page_number, i),
                    content |-> windows[i],
                    source |-> PdfName(doc.stem),
                    page |-> page_number]]

RECURSIVE DocChunks(_, _, _, _)
\* the chunks of the first n pages of a document
DocChunks(doc, n, chunk_size, chunk_overlap) ==
    IF n = 0 \/ ~doc.readable THEN <<>>
    ELSE DocChunks(doc, n - 1, chunk_size, chunk_overlap)
         \o PageChunks(doc, n, chunk_size, chunk_overlap)

RECURSIVE DocsChunks(_, _, _)
DocsChunks(docs, chunk_size, chunk_overlap) ==
    IF docs = <<>> THEN <<>>
    ELSE DocChunks(docs[1], Len(docs[1].pages), chunk_size, chunk_overlap)
         \o DocsChunks(Tail(docs), chunk_size, chunk_overlap)

\* the code point of a character of a file name
CharOrd(c) ==
    CASE c = "." -> 46 [] c = "1" -> 49 [] c = "2" -> 50 [] c = "3" -> 51
      [] c = "_" -> 95 [] c = "a" -> 97 [] c = "b" -> 98 [] c = "d" -> 100
      [] c = "f" -> 102 [] c = "p" -> 112 [] OTHER -> 0

RECURSIVE NameBefore(_, _)
\* a < b for two file names, as str compares them
NameBefore(a, b) ==
    IF b = <<>> THEN FALSE
    ELSE IF a = <<>> THEN TRUE
    ELSE IF a[1] # b[1] THEN CharOrd(a[1]) < CharOrd(b[1])
    ELSE NameBefore(Tail(a), Tail(b))

RECURSIVE InsertPdf(_, _)
InsertPdf(doc, sorted) ==
    IF sorted = <<>> THEN <<doc>>
    ELSE IF NameBefore(PdfName(doc.stem), PdfName(sorted[1].stem))
         THEN <<doc>> \o sorted
         ELSE <<sorted[1]>> \o InsertPdf(doc, Tail(sorted))

RECURSIVE SortedPdfs(_)
\* sorted(PDF_DIR.glob("*.pdf")): docs is the order the directory lists them in
SortedPdfs(docs) ==
    IF docs = <<>> THEN <<>> ELSE InsertPdf(docs[1], SortedPdfs(Tail(docs)))

\* list(_iter_pdf_chunks(cfg)): the error raised, or the chunks
IterPdfChunks(corpus, chunk_size, chunk_overlap) ==
    IF ~corpus.dir \/ corpus.docs = <<>>
    THEN [error |-> PdfNotFoundError, chunks |-> <<>>]
    ELSE [error |-> NoError,
          chunks |-> DocsChunks(SortedPdfs(corpus.docs), chunk_size, chunk_overlap)]

(***************************************************************************)
(* The PDF directories an ingest run may find                              *)
(***************************************************************************)
Page(raw) == [ok |-> TRUE, raw |-> raw]
BadPage == [ok |-> FALSE, raw |-> <<>>]
Doc(stem, pages) == [stem |-> stem, readable |-> TRUE, pages |-> pages]
BadDoc(stem) == [stem |-> stem, readable |-> FALSE, pages |-> <<>>]

NoPdfDir == [dir |-> FALSE, docs |-> <<>>]
EmptyPdfDir == [dir |-> TRUE, docs |-> <<>>]
BlankCorpus == [dir |-> TRUE, docs |-> <<Doc(<<"d", "1">>, <<Page(<<" ", "\n">>)>>)>>]
OneChunkCorpus ==
    [dir |-> TRUE, docs |-> <<Doc(<<"d", "1">>, <<Page(<<"a", "\n", "b">>)>>)>>]
ThreeChunkCorpus ==
    [dir |-> TRUE,
     docs |-> <<Doc(<<"d", "1">>, <<BadPage, Page(<<"b", " ", " ", "a", " ", "b">>)>>),
                BadDoc(<<"d", "2">>),
                Doc(<<"d", "3">>, <<Page(<<"b">>), Page(<<>>)>>)>>]

Corpora == {NoPdfDir, EmptyPdfDir, BlankCorpus, OneChunkCorpus, ThreeChunkCorpus}

(***************************************************************************)
(* What ingest_corpus writes                                               *)
(***************************************************************************)
RecordIdFromOne(idx, chunk) ==
    <<<<"int_id", idx + 1>>, <<"chunk_id", chunk.chunk_id>>, <<"source", chunk.source>>,
      <<"page", chunk.page>>, <<"content", chunk.content>>>>

\* record of enumerate(chunks) entry (idx, chunk) (ingest.py:140-146)
MetadataRecord(idx, chunk) ==
    <<<<"int_id", idx>>, <<"chunk_id", chunk.chunk_id>>, <<"source", chunk.source>>,
      <<"page", chunk.page>>, <<"content", chunk.content>>>>

\* the first k lines the loop of ingest.py:139-148 writes
MetadataLines(chunks, k) == [i \in 1..k |-> Dumps(MetadataRecord(i - 1, chunks[i]))]

\* "vector_count": len(chunks)
VectorCount(chunks, vectors) == Len(chunks)

\* info (ingest.py:150-158); built_at is the run's number
IndexInfo(run, chunks, vectors, chunk_size, chunk_overlap) ==
    <<<<"built_at", run>>, <<"embedding_model", "text-embedding-3-small">>,
      <<"chunk_size", chunk_size>>, <<"chunk_overlap", chunk_overlap>>,
      <<"vector_count", VectorCount(chunks, vectors)>>,
      <<"dimension", Len(vectors[1])>>, <<"index_metric", "angular">>>>

\* [chunk.content for chunk in chunks]
Contents(chunks) == [i \in 1..Len(chunks) |-> chunks[i].content]

(***************************************************************************)
(* cli.ingest and ingest_corpus                                            *)
(***************************************************************************)
IngestAtRest == ing_pc \in {"idle", "done", "aborted"}

\* embed_texts has handed its outcome to the caller
EmbedRelease ==
    /\ em_pc' = "idle"
    /\ em_caller' = "direct"
    /\ em_texts' = <<>>
    /\ em_batch_size' = 1
    /\ em_start' = 0
    /\ em_attempt' = 0
    /\ em_embeddings' = <<>>
    /\ em_result' = NoResult
    /\ em_error' = NoError
    /\ em_requests' = <<>>
    /\ em_sleeps' = <<>>
    /\ em_last_outcome' = "none"
    /\ UNCHANGED svc_dims

\* the run ends with exception err; its locals are gone
IngestAbort(err) ==
    /\ ing_pc' = "aborted"
    /\ ing_error' = err
    /\ ing_chunks' = <<>>
    /\ ing_vectors' = <<>>
    /\ ing_built' = -1

\* cli.py:29-33 and ingest.py:108-111
CliIngest(flag, corpus, hasKey) ==
    LET rebuild == IF ~flag /\ ~indexFile.exists THEN TRUE ELSE flag IN
    /\ IngestAtRest
    /\ ~store.loaded
    /\ ing_run < MaxRuns
    /\ ing_run' = ing_run + 1
    /\ ing_rebuild' = rebuild
    /\ ing_corpus' = corpus
    /\ ing_del' = 1
    /\ IF ~hasKey
       THEN IngestAbort(ApiKeyError)
       ELSE /\ ing_pc' = IF rebuild THEN "unlink" ELSE "collect"
            /\ ing_error' = NoError
            /\ ing_chunks' = <<>>
            /\ ing_vectors' = <<>>
            /\ ing_built' = -1
    /\ UNCHANGED <<pureVars, embedVars, diskVars, storeVars>>

UnlinkKeepsFile(artefact) == artefact

\* artefact.unlink()
Unlink(artefact) == NoFile

\* one pass of the loop of ingest.py:112-114 over
\* (INDEX_FILE, METADATA_FILE, INDEX_INFO_FILE); unlink may be refused
IngestUnlink(ok) ==
    LET artefact == <<indexFile, metadataFile, infoFile>>[ing_del] IN
    /\ ing_pc = "unlink"
    /\ ok \/ artefact.exists
    /\ IF ok
       THEN /\ indexFile' = IF ing_del = 1 THEN Unlink(indexFile) ELSE indexFile
            /\ metadataFile' = IF ing_del = 2 THEN Unlink(metadataFile) ELSE metadataFile
            /\ infoFile' = IF ing_del = 3 THEN Unlink(infoFile) ELSE infoFile
            /\ ing_del' = IF ing_del < 3 THEN ing_del + 1 ELSE ing_del
            /\ ing_pc' = IF ing_del < 3 THEN "unlink" ELSE "collect"
            /\ UNCHANGED <<ing_error, ing_chunks, ing_vectors, ing_built>>
       ELSE /\ IngestAbort(FileSystemError)
            /\ UNCHANGED <<diskVars, ing_del>>
    /\ UNCHANGED <<pureVars, embedVars, storeVars, ing_rebuild, ing_corpus, ing_run>>

\* ingest.py:116-124: the chunks are collected and handed to embed_texts
IngestCollect ==
    LET found == IterPdfChunks(ing_corpus, CfgChunkSize, CfgChunkOverlap) IN
    /\ ing_pc = "collect"
    /\ IF found.error # NoError
       THEN IngestAbort(found.error) /\ UNCHANGED embedVars
       ELSE IF found.chunks = <<>>
       THEN \* "No textual content extracted from PDFs." and return
            /\ ing_pc' = "done"
            /\ UNCHANGED <<ing_error, ing_chunks, ing_vectors, ing_built, embedVars>>
       ELSE /\ ing_pc' = "embedding"
            /\ ing_chunks' = found.chunks
            /\ EmbedInvoke("ingest", Contents(found.chunks), CfgBatchSize)
            /\ UNCHANGED <<ing_error, ing_vectors, ing_built>>
    /\ UNCHANGED <<pureVars, diskVars, storeVars, ing_rebuild, ing_corpus, ing_del, ing_run>>

\* embed_texts raised: the exception leaves ingest_corpus
IngestEmbedFailed ==
    /\ ing_pc = "embedding" /\ em_caller = "ingest" /\ em_pc = "raised"
    /\ IngestAbort(em_error)
    /\ EmbedRelease
    /\ UNCHANGED <<pureVars, diskVars, storeVars, ing_rebuild, ing_corpus, ing_del, ing_run>>

AnyLengthAccepted(vectors) == FALSE

\* dimension = len(vectors[0]); index.add_item(idx, vector) refuses a vector
\* whose length is not the dimension of the index
WrongLength(vectors) == \E i \in 1..Len(vectors) : Len(vectors[i]) # Len(vectors[1])

\* ingest.py:124-133: vectors returned; the index is filled and built in memory
IngestEmbedded ==
    LET vectors == em_result IN
    /\ ing_pc = "embedding" /\ em_caller = "ingest" /\ em_pc = "returned"
    /\ IF vectors = <<>>
       THEN IngestAbort(NoVectorsError)
       ELSE IF WrongLength(vectors)
       THEN IngestAbort(WrongLengthError)
       ELSE /\ ing_pc' = "save_index"
            /\ ing_vectors' = vectors
            /\ UNCHANGED <<ing_error, ing_chunks, ing_built>>
    /\ EmbedRelease
    /\ UNCHANGED <<pureVars, diskVars, storeVars, ing_rebuild, ing_corpus, ing_del, ing_run>>

WriteOutcomes == {"ok", "open_fails", "write_fails"}

\* ingest.py:135-136: index.save(INDEX_FILE)
IngestSaveIndex(how) ==
    /\ ing_pc = "save_index"
    /\ CASE how = "ok" ->
              /\ indexFile' = File(ing_run, TRUE, ing_vectors)
              /\ ing_pc' = "write_metadata"
              /\ UNCHANGED <<ing_error, ing_chunks, ing_vectors, ing_built>>
         [] how = "open_fails" ->
              /\ UNCHANGED indexFile
              /\ IngestAbort(FileSystemError)
         [] how = "write_fails" ->
              /\ indexFile' = File(ing_run, FALSE, <<>>)
              /\ IngestAbort(FileSystemError)
    /\ UNCHANGED <<pureVars, embedVars, storeVars, metadataFile, infoFile,
                   ing_rebuild, ing_corpus, ing_del, ing_run>>

\* ingest.py:138-148: METADATA_FILE is opened "wb" and the records written;
\* written = -1: the open is refused; written < len(chunks): a write is
\* refused after that many records
IngestWriteMetadata(written) ==
    /\ ing_pc = "write_metadata"
    /\ IF written = Len(ing_chunks)
       THEN /\ metadataFile' = File(ing_run, TRUE, MetadataLines(ing_chunks, written))
            /\ ing_pc' = "write_info"
            /\ UNCHANGED <<ing_error, ing_chunks, ing_vectors, ing_built>>
       ELSE /\ metadataFile' = IF written = -1 THEN metadataFile
                               ELSE File(ing_run, FALSE, MetadataLines(ing_chunks, written))
            /\ IngestAbort(FileSystemError)
    /\ UNCHANGED <<pureVars, embedVars, storeVars, indexFile, infoFile,
                   ing_rebuild, ing_corpus, ing_del, ing_run>>

\* ingest.py:150-163: INDEX_INFO_FILE.write_bytes(orjson.dumps(info))
IngestWriteInfo(how) ==
    /\ ing_pc = "write_info"
    /\ CASE how = "ok" ->
              /\ infoFile' = File(ing_run, TRUE,
                                  Dumps(IndexInfo(ing_run, ing_chunks, ing_vectors,
                                                  CfgChunkSize, CfgChunkOverlap)))
              /\ ing_pc' = "done"
              /\ ing_built' = Len(ing_chunks)
              /\ ing_chunks' = <<>>
              /\ ing_vectors' = <<>>
              /\ UNCHANGED ing_error
         [] how = "open_fails" ->
              /\ UNCHANGED infoFile
              /\ IngestAbort(FileSystemError)
         [] how = "write_fails" ->
              /\ infoFile' = File(ing_run, FALSE, <<>>)
              /\ IngestAbort(FileSystemError)
    /\ UNCHANGED <<pureVars, embedVars, storeVars, indexFile, metadataFile,
                   ing_rebuild, ing_corpus, ing_del, ing_run>>

IngestStep ==
    \/ \E flag \in BOOLEAN, corpus \in Corpora, hasKey \in BOOLEAN :
          CliIngest(flag, corpus, hasKey)
    \/ \E ok \in BOOLEAN : IngestUnlink(ok)
    \/ IngestCollect
    \/ IngestEmbedFailed
    \/ IngestEmbedded
    \/ \E how \in WriteOutcomes : IngestSaveIndex(how)
    \/ \E written \in -1..Len(ing_chunks) : IngestWriteMetadata(written)
    \/ \E how \in WriteOutcomes : IngestWriteInfo(how)

(***************************************************************************)
(* VectorStore                                                             *)
(***************************************************************************)
\* top_k: int | None = None
NoneArg == -1

NotLoaded ==
    [loaded |-> FALSE, dimension |-> 0, embedding_model |-> "", index |-> <<>>,
     metadata |-> <<>>, info |-> <<>>]

NotYetLoaded ==
    [done |-> FALSE, present |-> <<FALSE, FALSE, FALSE>>, reads |-> <<>>,
     error |-> NoError]

OnlyIndexChecked(index, metadata, info) == index.exists

\* the negation of the test of vector_store.py:29
ArtifactsPresent(index, metadata, info) ==
    index.exists /\ metadata.exists /\ info.exists

\* _load_metadata: every line of the file decoded, in file order
LoadMetadata(lines) == [i \in 1..Len(lines) |-> Loads(lines[i])]

\* VectorStore.__init__ on the given files: the exception it ends with, the
\* artifacts it read up to there, and the object if it was constructed
LoadOutcome(index, metadata, info, hasKey) ==
    LET failed(err, reads) == [error |-> err, reads |-> reads, store |-> NotLoaded] IN
    IF ~ArtifactsPresent(index, metadata, info)
    THEN failed(ArtifactsMissingError, <<>>)
    ELSE IF ~info.exists THEN failed(PathNotFoundError, <<>>)
    ELSE IF ~Decodable(info.data) THEN failed(JsonDecodeError, <<"info">>)
    ELSE IF ~index.exists THEN failed(PathNotFoundError, <<"info">>)
    ELSE IF ~metadata.exists THEN failed(PathNotFoundError, <<"info", "index">>)
    ELSE IF ~hasKey THEN failed(ApiKeyError, <<"info", "index", "metadata">>)
    ELSE LET d == Loads(info.data) IN
         [error |-> NoError,
          reads |-> <<"info", "index", "metadata">>,
          store |-> [loaded |-> TRUE,
                     dimension |-> Get(d, "dimension"),
                     embedding_model |-> Get(d, "embedding_model"),
                     index |-> index.data,
                     metadata |-> LoadMetadata(metadata.data),
                     info |-> d]]

SearchIdle ==
    /\ sr_pc = "idle"
    /\ sr_arg = NoneArg
    /\ sr_top_k = 0
    /\ sr_query = <<>>
    /\ sr_results = <<>>
    /\ sr_error = NoError

SearchReset ==
    /\ sr_pc' = "idle"
    /\ sr_arg' = NoneArg
    /\ sr_top_k' = 0
    /\ sr_query' = <<>>
    /\ sr_results' = <<>>
    /\ sr_error' = NoError

\* a process constructs VectorStore(cfg) (chat.py:34); a failed construction
\* leaves no object
StoreLoad(hasKey) ==
    LET out == LoadOutcome(indexFile, metadataFile, infoFile, hasKey) IN
    /\ IngestAtRest
    /\ ~store.loaded
    /\ store' = out.store
    /\ load' = [done |-> TRUE,
                present |-> <<indexFile.exists, metadataFile.exists, infoFile.exists>>,
                reads |-> out.reads,
                error |-> out.error]
    /\ UNCHANGED <<pureVars, embedVars, diskVars, ingestVars, searchVars>>

\* the process holding the store ends
StoreDrop ==
    /\ store.loaded
    /\ sr_pc \in {"idle", "done"}
    /\ store' = NotLoaded
    /\ SearchReset
    /\ UNCHANGED <<pureVars, embedVars, diskVars, ingestVars, load>>

\* top_k or self.cfg.top_k
ResolveTopK(arg, default) == IF arg = NoneArg \/ arg = 0 THEN default ELSE arg

Abs(n) == IF n < 0 THEN -n ELSE n

\* the index library's distance between two vectors, in hundredths, 0..200
Distance(q, v) ==
    IF Len(q) # Len(v) THEN 200
    ELSE Min(200, 50 * (Abs(q[1] - v[1]) + Abs(q[2] - v[2])))

RECURSIVE NearestFirst(_, _, _)
\* the ids of `ids`, nearest to q first
NearestFirst(items, q, ids) ==
    IF ids = {} THEN <<>>
    ELSE LET d(i) == Distance(q, items[i + 1])
             best == CHOOSE i \in ids :
                        \A j \in ids : d(i) < d(j) \/ (d(i) = d(j) /\ i <= j)
         IN <<best>> \o NearestFirst(items, q, ids \ {best})

\* self._index.get_nns_by_vector(query_vector, n=top_k, include_distances=True):
\* pairs <<id, distance>>
GetNns(items, q, n) ==
    LET order == NearestFirst(items, q, 0..(Len(items) - 1))
    IN [k \in 1..Min(n, Len(order)) |-> <<order[k], Distance(q, items[order[k] + 1])>>]

ScoreUnclamped(distance) == 100 - distance \div 2

\* max(min(1 - distance / 2, 1.0), 0.0), in hundredths
ScoreFromDistance(distance) == Max(Min(100 - distance \div 2, 100), 0)

\* vector_store.py:52-53: top_k is settled and embed_query(query) called
SearchCall(arg, query) ==
    /\ store.loaded
    /\ sr_pc \in {"idle", "done"}
    /\ sr_pc' = "embedding"
    /\ sr_arg' = arg
    /\ sr_top_k' = ResolveTopK(arg, CfgTopK)
    /\ sr_query' = query
    /\ sr_results' = <<>>
    /\ sr_error' = NoError
    /\ EmbedInvoke("query", <<query>>, CfgBatchSize)
    /\ UNCHANGED <<pureVars, diskVars, ingestVars, store, load>>

\* embed_texts raised: the exception leaves similarity_search
SearchEmbedFailed ==
    /\ sr_pc = "embedding" /\ em_caller = "query" /\ em_pc = "raised"
    /\ sr_pc' = "done"
    /\ sr_error' = em_error
    /\ EmbedRelease
    /\ UNCHANGED <<pureVars, diskVars, ingestVars, store, load,
                   sr_arg, sr_top_k, sr_query, sr_results>>

\* a store that loses its metadata to the query that read it
SelfEmptiedBySearch(self, nns) == [self EXCEPT !.metadata = <<>>]

\* self after vector_store.py:54-70: get_nns_by_vector and self._metadata[idx]
\* only read, and nothing is assigned to an attribute of self
SelfAfterSearch(self, nns) == self

\* embedding.py:51-54 and vector_store.py:54-70
SearchEmbedded ==
    LET vectors == em_result
        nns == GetNns(store.index, vectors[1], sr_top_k)
    IN
    /\ sr_pc = "embedding" /\ em_caller = "query" /\ em_pc = "returned"
    /\ sr_pc' = "done"
    /\ IF vectors = <<>>
       THEN sr_error' = NoQueryVectorError /\ UNCHANGED sr_results
       ELSE IF \E k \in 1..Len(nns) : nns[k][1] >= Len(store.metadata)
       THEN sr_error' = MetadataIndexError /\ UNCHANGED sr_results
       ELSE /\ sr_results' =
                 [k \in 1..Len(nns) |->
                     LET meta == store.metadata[nns[k][1] + 1] IN
                     [chunk_id |-> Get(meta, "chunk_id"),
                      content |-> Get(meta, "content"),
                      source |-> Get(meta, "source"),
                      page |-> Get(meta, "page"),
                      score |-> ScoreFromDistance(nns[k][2])]]
            /\ UNCHANGED sr_error
    /\ store' = SelfAfterSearch(store, nns)
    /\ EmbedRelease
    /\ UNCHANGED <<pureVars, diskVars, ingestVars, load, sr_arg, sr_top_k, sr_query>>

Queries == {<<"a">>, <<"b">>}

StoreStep ==
    \/ \E hasKey \in BOOLEAN : StoreLoad(hasKey)
    \/ StoreDrop
    \/ \E arg \in {NoneArg} \cup (0..MaxTopKArg), query \in Queries : SearchCall(arg, query)
    \/ SearchEmbedFailed
    \/ SearchEmbedded

\* no chunk generator under way
IterIdle ==
    /\ it_pc = "done"
    /\ it_corpus = NoPdfDir
    /\ it_error = NoError
    /\ it_chunks = <<>>

\* none of the functions exercised on their own is under way
PureIdle == ChunkIdle /\ SegIdle /\ ScoreIdle /\ IterIdle

\* no ingest run, no store, no query
StoreIdle ==
    /\ indexFile = NoFile
    /\ metadataFile = NoFile
    /\ infoFile = NoFile
    /\ ing_pc = "idle"
    /\ ing_rebuild = TRUE
    /\ ing_corpus = NoPdfDir
    /\ ing_del = 1
    /\ ing_chunks = <<>>
    /\ ing_vectors = <<>>
    /\ ing_error = NoError
    /\ ing_run = 0
    /\ ing_built = -1
    /\ store = NotLoaded
    /\ load = NotYetLoaded
    /\ SearchIdle

(***************************************************************************)
(* SpecEmbed: one direct embed_texts call                                  *)
(***************************************************************************)
TextPool == {<<"a">>, <<"b">>}

InitEmbed ==
    /\ PureIdle
    /\ StoreIdle
    /\ em_pc = "call"
    /\ em_caller = "direct"
    /\ em_texts \in UNION {[1..k -> TextPool] : k \in 0..MaxTexts}
    /\ em_batch_size \in 1..MaxBatchSize
    /\ em_start = 0
    /\ em_attempt = 0
    /\ em_embeddings = <<>>
    /\ em_result = NoResult
    /\ em_error = NoError
    /\ em_requests = <<>>
    /\ em_sleeps = <<>>
    /\ em_last_outcome = "none"
    /\ svc_dims = {NativeDim}

NextEmbed ==
    /\ em_caller = "direct"
    /\ EmbedStep
    /\ UNCHANGED <<pureVars, diskVars, ingestVars, storeVars>>

SpecEmbed == InitEmbed /\ [][NextEmbed]_vars

(***************************************************************************)
(* Claims about embed_texts                                                *)
(***************************************************************************)
RequestsFor(start) == {i \in 1..Len(em_requests) : em_requests[i].start = start}

\* C1: a batch answered with rate-limit or timeout is re-submitted unchanged,
\* and at most MaxAttempts (5) requests are ever sent for one batch: after
\* five requests all answered with rate-limit or timeout the call fails with
\* RateLimitExceededError and sends no sixth.
C1_AtMostFiveRequestsPerBatch ==
    /\ \A i \in 1..Len(em_requests) :
          em_requests[i].input = Batch(em_texts, em_requests[i].start, em_batch_size)
    /\ \A i \in 1..Len(em_requests) :
          Cardinality(RequestsFor(em_requests[i].start)) <= MaxAttempts

\* C3: a call that returns gives exactly one vector per input text, the
\* vector of the i-th text at position i, whatever the batch size and
\* whatever rate-limits and timeouts were retried on the way.
C3_OrderPreserved ==
    (em_pc = "returned") =>
        /\ Len(em_result) = Len(em_texts)
        /\ \A i \in 1..Len(em_texts) : em_result[i] = EmbeddingOf(em_texts[i])

\* three texts in two batches, the second batch retried before it succeeded
C3_Witness ==
    /\ em_pc = "returned"
    /\ em_caller = "direct"
    /\ Len(em_texts) = 3 /\ em_batch_size = 2
    /\ em_texts[1] # em_texts[2]
    /\ \E j \in 1..Len(em_sleeps) : em_requests[em_sleeps[j].after].start = 2

\* C4: when the service answers a request with an error other than
\* rate-limit or timeout, the call has failed with EmbeddingServiceError at
\* once: that request is the last one sent (no retry, no later batch) and no
\* sleep follows it.
C4_OtherErrorFailsAtOnce ==
    (em_last_outcome = "api_error") =>
        /\ em_pc = "raised"
        /\ em_error = EmbeddingServiceError
        /\ em_result = NoResult
        /\ \A j \in 1..Len(em_sleeps) : em_sleeps[j].after < Len(em_requests)

\* the first batch succeeded, the second met the error, a third was due
C4_Witness ==
    /\ em_last_outcome = "api_error"
    /\ em_caller = "direct"
    /\ Len(em_texts) = 3 /\ em_batch_size = 1
    /\ Len(em_requests) >= 2
    /\ em_requests[Len(em_requests)].start = 1

(***************************************************************************)
(* SpecChunk: the segmenter on every text of at most MaxTextLen characters *)
(***************************************************************************)
InitChunk ==
    /\ cw_text \in TextsUpTo(MaxTextLen)
    /\ cw_max_words \in 1..MaxWordsArg
    /\ cw_overlap \in 0..MaxOverlapArg
    /\ cw_pc = "ready"
    /\ cw_out = <<>>
    /\ SegIdle
    /\ ScoreIdle
    /\ IterIdle
    /\ EmbedIdle
    /\ StoreIdle

CallChunkWords ==
    /\ cw_pc = "ready"
    /\ cw_out' = ChunkWords(cw_text, cw_max_words, cw_overlap)
    /\ cw_pc' = "done"
    /\ UNCHANGED <<cw_text, cw_max_words, cw_overlap>>
    /\ UNCHANGED <<segVars, scoreVars, iterVars, systemVars>>

NextChunk == CallChunkWords

SpecChunk == InitChunk /\ [][NextChunk]_vars

(***************************************************************************)
(* Claims about the segmenter                                              *)
(***************************************************************************)
cw_words == Split(cw_text)
cw_windows == [i \in 1..Len(cw_out) |-> Split(cw_out[i])]

Drop(s, n) == SubSeq(s, n + 1, Len(s))
LastN(s, n) == SubSeq(s, Len(s) - n + 1, Len(s))

RECURSIVE Reconstruct(_, _)
\* the first window, then every later window without the `overlap` words it
\* shares with the window before it
Reconstruct(windows, overlap) ==
    IF windows = <<>> THEN <<>>
    ELSE IF Len(windows) = 1 THEN windows[1]
    ELSE Reconstruct(SubSeq(windows, 1, Len(windows) - 1), overlap)
         \o Drop(windows[Len(windows)], overlap)

\* C9: for max_words >= 1 and 0 <= overlap < max_words the windows, with each
\* later window's head de-duplicated against the tail of the window before
\* it, reconstruct the word sequence; no window is empty; every window after
\* the first brings at least one new word, so the final stretch of the text
\* is emitted once and not again.
C9_Coverage ==
    (cw_pc = "done" /\ cw_overlap < cw_max_words) =>
        /\ Reconstruct(cw_windows, cw_overlap) = cw_words
        /\ \A i \in 1..Len(cw_out) : cw_out[i] # <<>> /\ cw_windows[i] # <<>>
        /\ \A i \in 2..Len(cw_out) :
              /\ Len(cw_windows[i]) > cw_overlap
              /\ SubSeq(cw_windows[i], 1, cw_overlap) = LastN(cw_windows[i - 1], cw_overlap)
        /\ (cw_words # <<>>) =>
              /\ Len(cw_out) >= 1
              /\ LastN(cw_windows[Len(cw_out)], 1) = LastN(cw_words, 1)

\* a text whose last window ends exactly at the end of the word list, after
\* an overlapping window before it
C9_Witness ==
    /\ cw_pc = "done"
    /\ cw_max_words = 2 /\ cw_overlap = 1
    /\ Len(cw_words) = 3
    /\ Len(cw_out) = 2

\* C10: every window has at most max_words words, every window but the last
\* exactly max_words; fewer words than max_words give one window holding all
\* the words; a text without words gives no window.
C10_WindowSize ==
    (cw_pc = "done") =>
        /\ \A i \in 1..Len(cw_out) : Len(cw_windows[i]) <= cw_max_words
        /\ \A i \in 1..(Len(cw_out) - 1) : Len(cw_windows[i]) = cw_max_words
        /\ (cw_words # <<>> /\ Len(cw_words) < cw_max_words) =>
              (Len(cw_out) = 1 /\ cw_windows[1] = cw_words)
        /\ (cw_words = <<>>) => cw_out = <<>>

\* a short last window after a full one
C10_Witness ==
    /\ cw_pc = "done"
    /\ Len(cw_out) = 2
    /\ Len(cw_windows[1]) = cw_max_words
    /\ Len(cw_windows[2]) < cw_max_words

(***************************************************************************)
(* SpecStore: ingest runs, then processes that load the store and query    *)
(* it, over a directory that holds any subset of the files of an earlier   *)
(* build                                                                   *)
(***************************************************************************)
PriorChunks == IterPdfChunks(OneChunkCorpus, CfgChunkSize, CfgChunkOverlap).chunks
PriorVectors == ResponseData(Contents(PriorChunks), NativeDim)
PriorIndex == File(0, TRUE, PriorVectors)
PriorMetadata == File(0, TRUE, MetadataLines(PriorChunks, Len(PriorChunks)))
PriorInfo ==
    File(0, TRUE, Dumps(IndexInfo(0, PriorChunks, PriorVectors,
                                  CfgChunkSize, CfgChunkOverlap)))

\* any subset of the files of an earlier build, no run yet, no store
StoreStart ==
    /\ indexFile \in {NoFile, PriorIndex}
    /\ metadataFile \in {NoFile, PriorMetadata}
    /\ infoFile \in {NoFile, PriorInfo}
    /\ ing_pc = "idle"
    /\ ing_rebuild = TRUE
    /\ ing_corpus = NoPdfDir
    /\ ing_del = 1
    /\ ing_chunks = <<>>
    /\ ing_vectors = <<>>
    /\ ing_error = NoError
    /\ ing_run = 0
    /\ ing_built = -1
    /\ store = NotLoaded
    /\ load = NotYetLoaded
    /\ SearchIdle

InitStore ==
    /\ PureIdle
    /\ EmbedIdle
    /\ StoreStart

EmbedForCaller ==
    /\ em_caller \in {"ingest", "query"}
    /\ EmbedStep
    /\ UNCHANGED <<pureVars, diskVars, ingestVars, storeVars>>

NextStore == IngestStep \/ EmbedForCaller \/ StoreStep

SpecStore == InitStore /\ [][NextStore]_vars

(***************************************************************************)
(* Claims about the build and the store                                    *)
(***************************************************************************)
AllPresent == indexFile.exists /\ metadataFile.exists /\ infoFile.exists

\* the three files are present, written whole, by one and the same run
OneBuildTriple ==
    /\ AllPresent
    /\ indexFile.run = metadataFile.run /\ metadataFile.run = infoFile.run
    /\ indexFile.whole /\ metadataFile.whole /\ infoFile.whole

\* C2: when an ingest run (rebuild or incremental, from any prior files) has
\* aborted with an error, the files on disk are not all three present, or
\* they are the whole triple of one single build.
C2_AbortLeavesNoMixedTriple ==
    (ing_pc = "aborted") => (~AllPresent \/ OneBuildTriple)

\* C5: a query with top_k = 0 that returns, returns the empty list, and a
\* top_k given by the caller is the top_k the query uses.
C5_TopKZeroGivesNothing ==
    /\ (sr_pc = "done" /\ sr_error = NoError /\ sr_arg = 0) => sr_results = <<>>
    /\ (sr_pc = "done" /\ sr_error = NoError /\ sr_arg # NoneArg) => sr_top_k = sr_arg

\* C6: constructing a VectorStore while one or more of the three files is
\* absent fails with ArtifactsMissingError before any artifact is read, and
\* no store object results.
C6_MissingArtifactFailsBeforeRead ==
    (load.done /\ load.present # <<TRUE, TRUE, TRUE>>) =>
        /\ load.error = ArtifactsMissingError
        /\ load.reads = <<>>
        /\ ~store.loaded

\* index and metadata present, manifest absent
C6_Witness ==
    /\ load.done
    /\ load.present = <<TRUE, TRUE, FALSE>>
    /\ load.error = ArtifactsMissingError

\* C7: a store whose manifest disagrees with the index file's dimension or
\* with the number of metadata records is never loaded.
C7_MismatchNeverLoaded ==
    store.loaded =>
        /\ Get(store.info, "vector_count") = Len(store.metadata)
        /\ \A i \in 1..Len(store.index) :
              Len(store.index[i]) = Get(store.info, "dimension")

\* C8: a store loaded after a successful build from N chunks has a manifest
\* with vector_count = N and N metadata records whose int_id is their
\* position, 0..N-1.
C8_RoundTrip ==
    (ing_pc = "done" /\ ing_built >= 1 /\ store.loaded) =>
        /\ Get(store.info, "vector_count") = ing_built
        /\ Len(store.metadata) = ing_built
        /\ \A i \in 1..Len(store.metadata) : Get(store.metadata[i], "int_id") = i - 1

\* a build from three chunks, loaded
C8_Witness ==
    /\ ing_pc = "done" /\ ing_built = 3
    /\ store.loaded
    /\ Len(store.metadata) = 3

\* C11: an ingest run that looked for chunks and found none (no source
\* documents, or documents without extractable text) ends as a failed run
\* with the empty-corpus error (the one error the code has for it, raised at
\* ingest.py:66-71), and has written none of the three files.
C11_EmptyCorpusFails ==
    LET found == IterPdfChunks(ing_corpus, CfgChunkSize, CfgChunkOverlap) IN
    (/\ ing_run >= 1
     /\ ing_pc \in {"done", "aborted"}
     /\ ing_error \notin {ApiKeyError, FileSystemError}
     /\ found.chunks = <<>>) =>
        /\ ing_pc = "aborted"
        /\ ing_error = PdfNotFoundError
        /\ indexFile.run # ing_run /\ metadataFile.run # ing_run /\ infoFile.run # ing_run

\* C12: no step of a query (the call, the embedding requests of the query,
\* its return or its failure) changes the loaded store (index, metadata,
\* manifest in memory) or any of the three files on disk.
C12_QueryLeavesStoreAlone ==
    [][(sr_pc = "embedding" \/ sr_pc' = "embedding") =>
          (store' = store /\ diskVars' = diskVars)]_vars

\* a query that failed while joining its hits to the metadata, the store
\* still loaded with its index and metadata
C12_Witness ==
    /\ sr_pc = "done"
    /\ sr_error = MetadataIndexError
    /\ store.loaded
    /\ store.index # <<>>
    /\ store.metadata # <<>>

(***************************************************************************)
(* SpecBuild: ingest runs against a service whose responses need not all   *)
(* have vectors of the same length                                         *)
(***************************************************************************)
MaxExtraDims == 1

InitBuild ==
    /\ PureIdle
    /\ ClientIdle
    /\ svc_dims = NativeDim..(NativeDim + MaxExtraDims)
    /\ StoreStart

NextBuild == IngestStep \/ EmbedForCaller

SpecBuild == InitBuild /\ [][NextBuild]_vars

\* the vectors of items are all of one length
OneLength(items) == \A i, j \in 1..Len(items) : Len(items[i]) = Len(items[j])

\* C13: the step that receives embedded vectors not all of equal length
\* ends the run as failed with the wrong-length error and touches no file;
\* and no index, in memory or on disk, ever holds vectors of different
\* lengths.
C13_MixedLengthsAbort ==
    /\ [](OneLength(ing_vectors) /\ OneLength(indexFile.data))
    /\ [][(/\ ing_pc = "embedding" /\ em_pc = "returned"
           /\ ~OneLength(em_result)
           /\ ing_pc' # ing_pc) =>
             (/\ ing_pc' = "aborted"
              /\ ing_error' = WrongLengthError
              /\ diskVars' = diskVars)]_vars

\* a run over three chunks, embedded in two requests that were answered
\* with vectors of different lengths, has aborted
C13_Witness ==
    /\ ing_pc = "aborted"
    /\ ing_error = WrongLengthError
    /\ ing_corpus = ThreeChunkCorpus

(***************************************************************************)
(* SpecScore: _score_from_distance applied to two distances, inside and    *)
(* outside [0, 2]                                                          *)
(***************************************************************************)
MaxOvershoot == 20      \* how far outside [0, 2] a distance is tried, in fiftieths

\* distances in hundredths, the even ones, whose half is an exact hundredth
Distances == {2 * k : k \in (-MaxOvershoot)..(100 + MaxOvershoot)}

InitScore ==
    /\ ChunkIdle
    /\ SegIdle
    /\ IterIdle
    /\ sc_pc = "ready"
    /\ sc_near \in Distances
    /\ sc_far \in Distances
    /\ sc_near_score = 0
    /\ sc_far_score = 0
    /\ EmbedIdle
    /\ StoreIdle

CallScoreFromDistance ==
    /\ sc_pc = "ready"
    /\ sc_near_score' = ScoreFromDistance(sc_near)
    /\ sc_far_score' = ScoreFromDistance(sc_far)
    /\ sc_pc' = "done"
    /\ UNCHANGED <<sc_near, sc_far>>
    /\ UNCHANGED <<chunkVars, segVars, iterVars, systemVars>>

NextScore == CallScoreFromDistance

SpecScore == InitScore /\ [][NextScore]_vars

\* C14: of two distances the larger never has the larger score; distance 0
\* scores 1.0 and distance 2 scores 0.0; every score lies in [0, 1], a
\* distance below 0 scoring 1.0 and a distance above 2 scoring 0.0.
C14_ScoreMonotoneClamped ==
    sc_pc = "done" =>
        /\ sc_near <= sc_far => sc_near_score >= sc_far_score
        /\ sc_near = 0 => sc_near_score = 100
        /\ sc_near = 200 => sc_near_score = 0
        /\ sc_near_score \in 0..100
        /\ sc_near < 0 => sc_near_score = 100
        /\ sc_near > 200 => sc_near_score = 0

\* one distance below 0 and one above 2, scored 1.0 and 0.0
C14_Witness ==
    /\ sc_pc = "done"
    /\ sc_near < 0 /\ sc_near_score = 100
    /\ sc_far > 200 /\ sc_far_score = 0

(***************************************************************************)
(* More claims about embed_texts, under SpecEmbed                          *)
(***************************************************************************)
\* C15: embed_texts of the empty list returns the empty list, raises
\* nothing, sends no request to the service and never sleeps.
C15_EmptyInputNoRequest ==
    (em_texts = <<>> /\ em_pc # "call") =>
        /\ em_pc = "returned"
        /\ em_result = <<>>
        /\ em_error = NoError
        /\ em_requests = <<>>
        /\ em_sleeps = <<>>

\* the call with no texts has returned
C15_Witness ==
    /\ em_caller = "direct"
    /\ em_texts = <<>>
    /\ em_pc = "returned"
    /\ em_result = <<>>

\* the start of the batch whose request was followed by sleep j
SleepBatch(j) == em_requests[em_sleeps[j].after].start

\* the sleeps before sleep j that followed a request for the same batch
FailuresBefore(j) == Cardinality({i \in 1..(j - 1) : SleepBatch(i) = SleepBatch(j)})

\* C17: the sleep after the k-th consecutive transient failure of a batch
\* (k from 0, counted for that batch alone) lasts min(2^k, 30) seconds; and
\* a call gives up only on a batch that itself used up the retries the code
\* grants, whatever earlier batches went through.
C17_BackoffPerBatch ==
    /\ \A j \in 1..Len(em_sleeps) :
          LET k == FailuresBefore(j) IN
          em_sleeps[j].delay = IF 2 ^ k < MaxDelay THEN 2 ^ k ELSE MaxDelay
    /\ (em_pc = "raised" /\ em_error = RateLimitExceededError) =>
          FailuresBefore(Len(em_sleeps)) = MaxAttempts

\* the first batch failed twice (sleeps of 1 and 2), the second batch's
\* first failure sleeps 1 again; and a sixth failure in a row has slept 30
C17_Witness ==
    /\ Len(em_sleeps) >= 9
    /\ em_sleeps[1].delay = 1 /\ em_sleeps[2].delay = 2
    /\ SleepBatch(2) = 0 /\ SleepBatch(3) > 0
    /\ em_sleeps[3].delay = 1
    /\ em_sleeps[Len(em_sleeps)].delay = MaxDelay

(***************************************************************************)
(* More claims about the build and the store, under SpecStore              *)
(***************************************************************************)
\* the three files, in the order the code names them
Artifacts == <<indexFile, metadataFile, infoFile>>

\* C16: during and after an ingest run in rebuild mode, no file left by an
\* earlier build is on disk together with a file written by this run: when
\* the run writes its first file, every earlier file is gone.
C16_RebuildNeverMixesGenerations ==
    (ing_rebuild /\ ing_run >= 1) =>
        ~(/\ \E i \in 1..3 : Artifacts[i].exists /\ Artifacts[i].run < ing_run
          /\ \E i \in 1..3 : Artifacts[i].exists /\ Artifacts[i].run = ing_run)

\* a store was loaded from a full earlier triple and dropped; the first run,
\* in rebuild mode, has since written its index and nothing else is on disk
C16_Witness ==
    /\ load.done /\ load.present = <<TRUE, TRUE, TRUE>>
    /\ ing_run = 1 /\ ing_rebuild
    /\ ing_pc = "write_metadata"
    /\ indexFile.exists /\ indexFile.run = 1
    /\ ~metadataFile.exists /\ ~infoFile.exists

\* the top_k the caller of the query asked for: the argument, or the
\* configured default when none was given
AskedTopK == IF sr_arg = NoneArg THEN CfgTopK ELSE sr_arg

\* C18: a query that returns has at most top_k results, in the order the
\* index gave its hits, each carrying the fields of the metadata record at
\* the position of the hit's int id; the scores never rise along the list
\* and each lies in [0, 1].
C18_AtMostTopKJoinedInOrder ==
    (sr_pc = "done" /\ sr_error = NoError) =>
        LET hits == GetNns(store.index, EmbeddingOf(sr_query), Len(sr_results)) IN
        /\ Len(sr_results) <= AskedTopK
        /\ \A k \in 1..Len(sr_results) :
              LET meta == store.metadata[hits[k][1] + 1] IN
              /\ sr_results[k].chunk_id = Get(meta, "chunk_id")
              /\ sr_results[k].content = Get(meta, "content")
              /\ sr_results[k].source = Get(meta, "source")
              /\ sr_results[k].page = Get(meta, "page")
              /\ sr_results[k].score \in 0..100
        /\ \A k \in 1..(Len(sr_results) - 1) :
              sr_results[k].score >= sr_results[k + 1].score

(***************************************************************************)
(* SpecSegment: _chunk_words one pass of its loop at a time, for every     *)
(* text of at most MaxSegTextLen characters and integer arguments, zero    *)
(* and negative ones included                                              *)
(***************************************************************************)
MaxSegTextLen == 5     \* characters in a stepwise segmenter input
MaxNegArg == 1         \* how far below zero max_words and overlap are tried

InitSegment ==
    /\ ChunkIdle
    /\ ScoreIdle
    /\ IterIdle
    /\ sg_text \in TextsUpTo(MaxSegTextLen)
    /\ sg_max_words \in (-MaxNegArg)..MaxWordsArg
    /\ sg_overlap \in (-MaxNegArg)..MaxOverlapArg
    /\ sg_pc = "ready"
    /\ sg_start = 0
    /\ sg_iters = 0
    /\ sg_out = <<>>
    /\ EmbedIdle
    /\ StoreIdle

\* ingest.py:47-53: words = text.split(); if not words: return; start = 0
SegEnter ==
    /\ sg_pc = "ready"
    /\ sg_pc' = IF Split(sg_text) = <<>> THEN "done" ELSE "loop"
    /\ UNCHANGED <<sg_text, sg_max_words, sg_overlap, sg_start, sg_iters, sg_out>>
    /\ UNCHANGED <<chunkVars, scoreVars, iterVars, systemVars>>

\* ingest.py:54-62: the test of the while loop and, if it holds, one pass
SegLoop ==
    LET words == Split(sg_text)
        total == Len(words)
        end == WindowEnd(total, sg_start, sg_max_words)
        chunk_text == Strip(Join(PySlice(words, sg_start, end)))
    IN
    /\ sg_pc = "loop"
    /\ IF ~(sg_start < total)
       THEN /\ sg_pc' = "done"
            /\ UNCHANGED <<sg_start, sg_iters, sg_out>>
       ELSE /\ sg_iters' = sg_iters + 1
            /\ sg_out' = IF chunk_text # <<>> THEN Append(sg_out, chunk_text) ELSE sg_out
            /\ IF LastWindow(total, end)
               THEN sg_pc' = "done" /\ UNCHANGED sg_start
               ELSE /\ sg_pc' = "loop"
                    /\ sg_start' = sg_start + Step(sg_max_words, sg_overlap)
    /\ UNCHANGED <<sg_text, sg_max_words, sg_overlap>>
    /\ UNCHANGED <<chunkVars, scoreVars, iterVars, systemVars>>

NextSegment == SegEnter \/ SegLoop

SpecSegment == InitSegment /\ [][NextSegment]_vars

\* C19: for every text and every integer max_words and overlap, overlap >=
\* max_words included, the loop makes at most len(words) passes: before
\* each pass start is the number of passes made times the stride
\* max(max_words - overlap, 1), which is at least 1, so start has risen with
\* every pass.
C19_LoopBounded ==
    LET total == Len(Split(sg_text))
        stride == IF sg_max_words - sg_overlap > 1 THEN sg_max_words - sg_overlap ELSE 1
    IN
    /\ sg_iters <= total
    /\ sg_pc = "loop" => (sg_start = sg_iters * stride /\ sg_start >= sg_iters)

\* three words cut with overlap >= max_words: three passes, three windows
C19_Witness ==
    /\ sg_pc = "done"
    /\ sg_max_words >= 1
    /\ sg_overlap >= sg_max_words
    /\ sg_iters = 3
    /\ Len(sg_out) = 3

(***************************************************************************)
(* SpecIter: _iter_pdf_chunks over directories of up to three documents    *)
(* of up to MaxIterPages pages, listed in any order                        *)
(***************************************************************************)
MaxIterPages == 2      \* pages of a document

\* stems, one of them ending like a chunk id
StemPool == {<<"b">>, <<"d">>, <<"d", "_", "p", "1">>}

\* a page without text and a page of four words
PagePool == {Page(<<" ", "\n">>), Page(<<"a", " ", "b", " ", "a", " ", "b">>)}

DocPool ==
    {BadDoc(stem) : stem \in StemPool}
    \cup {Doc(stem, pages) : stem \in StemPool,
                             pages \in UNION {[1..n -> PagePool] : n \in 1..MaxIterPages}}

\* a directory holds one file of a name; the listing has any order
Listings ==
    {docs \in UNION {[1..n -> DocPool] : n \in 0..Cardinality(StemPool)} :
        \A i, j \in 1..Len(docs) : docs[i].stem = docs[j].stem => i = j}

InitIter ==
    /\ ChunkIdle
    /\ SegIdle
    /\ ScoreIdle
    /\ it_pc = "ready"
    /\ it_corpus \in {[dir |-> TRUE, docs |-> docs] : docs \in Listings}
    /\ it_error = NoError
    /\ it_chunks = <<>>
    /\ EmbedIdle
    /\ StoreIdle

\* chunks = list(_iter_pdf_chunks(cfg))
CallIterPdfChunks ==
    LET found == IterPdfChunks(it_corpus, CfgChunkSize, CfgChunkOverlap) IN
    /\ it_pc = "ready"
    /\ it_pc' = "done"
    /\ it_error' = found.error
    /\ it_chunks' = found.chunks
    /\ UNCHANGED it_corpus
    /\ UNCHANGED <<chunkVars, segVars, scoreVars, systemVars>>

NextIter == CallIterPdfChunks

SpecIter == InitIter /\ [][NextIter]_vars

\* the chunk ids of a list of chunks, in order
ChunkIds(chunks) == [i \in 1..Len(chunks) |-> chunks[i].chunk_id]

\* the listings of the same files in another order
Relistings(docs) ==
    {other \in [1..Len(docs) -> {docs[i] : i \in 1..Len(docs)}] :
        \A i \in 1..Len(docs) : \E j \in 1..Len(docs) : other[j] = docs[i]}

\* the chunks before chunk i that come from the same page of the same file
EarlierOfPage(chunks, i) ==
    Cardinality({j \in 1..(i - 1) : /\ chunks[j].source = chunks[i].source
                                    /\ chunks[j].page = chunks[i].page})

\* C20: the chunk ids and their order are the same however the directory
\* lists its files; no two chunks of the corpus share a chunk id; no chunk
\* has empty content; and the id of a chunk is {stem}_p{page}_c{seq} with
\* seq counting the chunks of its page 1, 2, 3, ... without a gap.
C20_ChunkIdsDeterministicUnique ==
    (it_pc = "done" /\ it_error = NoError) =>
        /\ \A other \in Relistings(it_corpus.docs) :
              ChunkIds(IterPdfChunks([dir |-> TRUE, docs |-> other],
                                     CfgChunkSize, CfgChunkOverlap).chunks)
                 = ChunkIds(it_chunks)
        /\ \A i, j \in 1..Len(it_chunks) :
              it_chunks[i].chunk_id = it_chunks[j].chunk_id => i = j
        /\ \A i \in 1..Len(it_chunks) :
              LET c == it_chunks[i]
                  stem == SubSeq(c.source, 1, Len(c.source) - 4)
              IN /\ c.content # <<>>
                 /\ c.chunk_id = stem \o <<"_", "p">> \o Digits(c.page)
                                      \o <<"_", "c">> \o Digits(EarlierOfPage(it_chunks, i) + 1)

\* three files listed in descending order, the first and the last with
\* several chunks on one page
C20_Witness ==
    /\ it_pc = "done"
    /\ Len(it_corpus.docs) = 3
    /\ it_corpus.docs[1].stem = <<"d", "_", "p", "1">>
    /\ it_corpus.docs[3].stem = <<"b">>
    /\ Len(it_chunks) >= 4
    /\ it_chunks[1].source = PdfName(<<"b">>)
    /\ EarlierOfPage(it_chunks, 2) = 1
    /\ it_chunks[Len(it_chunks)].source = PdfName(<<"d", "_", "p", "1">>)

\* C21: a call that has returned gives exactly len(texts) vectors and no
\* error; a call that has raised gives no result and keeps none of the
\* vectors of its earlier batches; and a result exists only once the call
\* has returned.
C21_AllOrNothing ==
    /\ em_pc = "returned" => (Len(em_result) = Len(em_texts) /\ em_error = NoError)
    /\ em_pc = "raised" =>
          (em_result = NoResult /\ em_embeddings = <<>> /\ em_error # NoError)
    /\ em_pc \in {"call", "request"} => em_result = NoResult

\* the first batch was embedded, the second used up its retries: the call
\* has raised and nothing of the first batch is left
C21_Witness ==
    /\ em_caller = "direct"
    /\ em_pc = "raised"
    /\ em_error = RateLimitExceededError
    /\ Len(em_texts) = 3 /\ em_batch_size = 2
    /\ em_requests[1].start = 0
    /\ em_requests[Len(em_requests)].start = 2
    /\ em_result = NoResult
    /\ em_embeddings = <<>>

====
